---- MODULE Spec2Model ----
(***************************************************************************)
(* Model of two pieces of the plasmic tooling:                             *)
(*   - the prop merger of packages/react-web (mergeProps, mergePropVals),   *)
(*   - the index-page resolver of packages/create-plasmic-app               *)
(*     (overwriteIndex and the helpers it calls).                           *)
(* JavaScript strings are sequences of one-character strings, so that      *)
(* startsWith, includes, basename and the glob matches are computed.        *)
(***************************************************************************)
EXTENDS Integers, Sequences, FiniteSets, TLC

VARIABLES
  op,          \* prop merger: the last function called ("none" at start)
  args,        \* prop merger: the arguments of that call
  res,         \* prop merger: the value that call returned
  evt,         \* prop merger: the argument of the last handler invocation
  calls,       \* prop merger: the handler calls made by the last invocation
  ret,         \* prop merger: the value the last handler invocation returned
  counters,    \* prop merger: calls received so far by each user handler
  invocations  \* prop merger: how many times the merged handler was invoked

mergeVars == <<op, args, res, evt, calls, ret, counters, invocations>>

VARIABLES
  platform,    \* overwriteIndex: the platform argument
  scheme,      \* overwriteIndex: the scheme argument
  config,      \* overwriteIndex: the parsed manifest (plasmic.json)
  fs,          \* the files on disk: path |-> content
  pc,          \* overwriteIndex: position of the current run
  err,         \* overwriteIndex: the error the run ended with, or "none"
  ops,         \* the unlink and write calls of the current run, in order
  runs,        \* how many runs of overwriteIndex have been started
  prevFs       \* the files on disk when the previous run returned

indexVars == <<platform, scheme, config, fs, pc, err, ops, runs, prevFs>>

VARIABLES
  probe,       \* helpers: the helper called on its own and its arguments
  outcome      \* helpers: the value that call returned

helperVars == <<probe, outcome>>

VARIABLES
  argv,         \* run: the command-line options
  settled,      \* run: the platform and scheme settled so far
  projectId,    \* run: the local projectId of the project-ID loop
  rawProjectId, \* run: the last value maybePrompt returned in the loop
  prompts,      \* run: how many times the user was asked for the project ID
  runPc,        \* run: position of run()
  created       \* run: the options cpa.create was called with, if it was

runVars == <<argv, settled, projectId, rawProjectId, prompts, runPc, created>>

otherVars == <<helperVars, runVars>>

vars == <<mergeVars, indexVars, helperVars, runVars>>

\* how many answers that are no project ID the user gives before a valid one
MaxInvalidAnswers == 2

-----------------------------------------------------------------------------
(* Bounds *)

MaxOverrides == 2      \* override sets passed to mergeProps after the base
MaxInvocations == 2    \* successive invocations of one merged handler
MaxComponents == 2     \* components listed in the manifest
MaxRuns == 2           \* successive runs of overwriteIndex on one project

-----------------------------------------------------------------------------
(* Strings *)

StartsWith(s, p) == Len(s) >= Len(p) /\ SubSeq(s, 1, Len(p)) = p

Includes(s, p) ==
  \E i \in 0..(Len(s) - Len(p)) : SubSeq(s, i + 1, i + Len(p)) = p

-----------------------------------------------------------------------------
(* JavaScript values of the prop merger *)

Undefined == [type |-> "undefined"]
Null == [type |-> "null"]
NONE == [type |-> "symbol", description |-> "NONE"]
Str(s) == [type |-> "string", chars |-> s]
Num(n) == [type |-> "number", n |-> n]
\* an object is the sequence of its own enumerable <<key, value>> entries
Obj(entries) == [type |-> "object", entries |-> entries]
\* a user handler: calling it logs the call and returns r
Handler(i, r) == [type |-> "function", kind |-> "handler", id |-> i, ret |-> r]
\* the closure mergePropVals returns for two event handlers
MergedHandler(val1, val2) ==
  [type |-> "function", kind |-> "merged", val1 |-> val1, val2 |-> val2]

TypeOf(v) == IF v.type = "null" THEN "object" ELSE v.type

notNil(x) == x # Undefined /\ x # Null

Truthy(v) ==
  CASE v.type = "undefined" -> FALSE
    [] v.type = "null" -> FALSE
    [] v.type = "string" -> v.chars # <<>>
    [] v.type = "number" -> v.n # 0
    [] OTHER -> TRUE

-----------------------------------------------------------------------------
(* classnames(val1, val2), for the argument shapes mergePropVals passes on:  *)
(* a falsy argument gives nothing, a string gives itself, an object gives    *)
(* its keys that have a truthy value, a function gives nothing; the chunks   *)
(* are joined by one space.                                                  *)

ClassChunks(v) ==
  CASE v.type = "string" -> IF v.chars = <<>> THEN <<>> ELSE <<v.chars>>
    [] v.type = "object" ->
         LET keep == SelectSeq(v.entries, LAMBDA e : Truthy(e[2]))
         IN [i \in 1..Len(keep) |-> keep[i][1]]
    [] OTHER -> <<>>

RECURSIVE JoinSpace(_)
JoinSpace(chunks) ==
  IF chunks = <<>> THEN <<>>
  ELSE IF Len(chunks) = 1 THEN chunks[1]
  ELSE chunks[1] \o <<" ">> \o JoinSpace(Tail(chunks))

\* classnames with its arguments taken in the wrong order
classNames_RightFirst(val1, val2) ==
  Str(JoinSpace(ClassChunks(val2) \o ClassChunks(val1)))

classNames(val1, val2) == Str(JoinSpace(ClassChunks(val1) \o ClassChunks(val2)))

(* { ...val1, ...val2 }: the own enumerable entries of val1, then those of   *)
(* val2; a key of val2 that val1 has keeps val1's position and takes val2's   *)
(* value.  A string spreads to its characters under the keys "0", "1", ...   *)

IndexKeys == <<"0", "1", "2", "3", "4", "5", "6", "7", "8", "9">>

OwnEntries(v) ==
  CASE v.type = "object" -> v.entries
    [] v.type = "string" ->
         [i \in 1..Len(v.chars) |-> <<(<<IndexKeys[i]>>), Str(<<v.chars[i]>>)>>]
    [] OTHER -> <<>>

EntryKeys(entries) == {entries[i][1] : i \in 1..Len(entries)}

EntryValue(entries, k) ==
  LET i == CHOOSE j \in 1..Len(entries) : entries[j][1] = k IN entries[i][2]

\* a spread in which val1 wins the keys both have
SpreadMerge_LeftWins(val1, val2) ==
  LET e1 == OwnEntries(val1)
      e2 == OwnEntries(val2)
      added == SelectSeq(e2, LAMBDA e : e[1] \notin EntryKeys(e1))
  IN Obj(e1 \o added)

SpreadMerge(val1, val2) ==
  LET e1 == OwnEntries(val1)
      e2 == OwnEntries(val2)
      kept == [i \in 1..Len(e1) |->
                 IF e1[i][1] \in EntryKeys(e2)
                 THEN <<e1[i][1], EntryValue(e2, e1[i][1])>>
                 ELSE e1[i]]
      added == SelectSeq(e2, LAMBDA e : e[1] \notin EntryKeys(e1))
  IN Obj(kept \o added)

-----------------------------------------------------------------------------
(* mergePropVals and mergeProps *)

\* mergePropVals with the nil tests moved ahead of the NONE test
mergePropVals_NilFirst(name, val1, val2) ==
  IF ~notNil(val1) THEN val2
  ELSE IF ~notNil(val2) THEN val1
  ELSE IF val1 = NONE \/ val2 = NONE THEN Null
  ELSE val2

\* mergePropVals with the type test moved ahead of the nil tests
mergePropVals_TypeFirst(name, val1, val2) ==
  IF val1 = NONE \/ val2 = NONE THEN Null
  ELSE IF TypeOf(val1) # TypeOf(val2) THEN val2
  ELSE IF ~notNil(val1) THEN val2
  ELSE IF ~notNil(val2) THEN val1
  ELSE IF name = <<"c", "l", "a", "s", "s", "N", "a", "m", "e">>
    THEN classNames(val1, val2)
  ELSE IF name = <<"s", "t", "y", "l", "e">> THEN SpreadMerge(val1, val2)
  ELSE IF StartsWith(name, <<"o", "n">>) /\ TypeOf(val1) = "function"
    THEN MergedHandler(val1, val2)
  ELSE val2

\* mergePropVals without the type test
mergePropVals_NoTypeTest(name, val1, val2) ==
  IF val1 = NONE \/ val2 = NONE THEN Null
  ELSE IF ~notNil(val1) THEN val2
  ELSE IF ~notNil(val2) THEN val1
  ELSE IF name = <<"c", "l", "a", "s", "s", "N", "a", "m", "e">>
    THEN classNames(val1, val2)
  ELSE IF name = <<"s", "t", "y", "l", "e">> THEN SpreadMerge(val1, val2)
  ELSE IF StartsWith(name, <<"o", "n">>) /\ TypeOf(val1) = "function"
    THEN MergedHandler(val1, val2)
  ELSE val2

mergePropVals(name, val1, val2) ==
  IF val1 = NONE \/ val2 = NONE THEN Null
  ELSE IF ~notNil(val1) THEN val2
  ELSE IF ~notNil(val2) THEN val1
  ELSE IF TypeOf(val1) # TypeOf(val2) THEN val2
  ELSE IF name = <<"c", "l", "a", "s", "s", "N", "a", "m", "e">>
    THEN classNames(val1, val2)
  ELSE IF name = <<"s", "t", "y", "l", "e">> THEN SpreadMerge(val1, val2)
  ELSE IF StartsWith(name, <<"o", "n">>) /\ TypeOf(val1) = "function"
    THEN MergedHandler(val1, val2)
  ELSE val2

\* result[key]: undefined when result has no such key
PropOf(props, key) == IF key \in DOMAIN props THEN props[key] ELSE Undefined

\* the inner loop of mergeProps: one override set folded onto result
MergeRest(result, rest) ==
  [key \in (DOMAIN result) \cup (DOMAIN rest) |->
     IF key \in DOMAIN rest
     THEN mergePropVals(key, PropOf(result, key), rest[key])
     ELSE result[key]]

RECURSIVE mergeProps(_, _)
mergeProps(props, restProps) ==
  IF restProps = <<>> THEN props
  ELSE mergeProps(MergeRest(props, Head(restProps)), Tail(restProps))

(* Calling a function value with arguments a: the calls made to user          *)
(* handlers, in order, and the value returned.                                *)

RECURSIVE Invoke(_, _)

\* the closure body with the two calls in the wrong order
MergedBody_RightFirst(val1, val2, a) ==
  LET r1 == IF TypeOf(val1) = "function" THEN Invoke(val1, a)
            ELSE [log |-> <<>>, res |-> Undefined]
      r2 == IF TypeOf(val2) = "function" THEN Invoke(val2, a)
            ELSE [log |-> <<>>, res |-> r1.res]
  IN [log |-> r2.log \o r1.log, res |-> r2.res]

\* the body of the closure mergePropVals returns for an event handler
MergedBody(val1, val2, a) ==
  LET r1 == IF TypeOf(val1) = "function" THEN Invoke(val1, a)
            ELSE [log |-> <<>>, res |-> Undefined]
      r2 == IF TypeOf(val2) = "function" THEN Invoke(val2, a)
            ELSE [log |-> <<>>, res |-> r1.res]
  IN [log |-> r1.log \o r2.log, res |-> r2.res]

Invoke(f, a) ==
  IF f.kind = "handler"
  THEN [log |-> <<[id |-> f.id, args |-> a]>>, res |-> f.ret]
  ELSE MergedBody(f.val1, f.val2, a)

-----------------------------------------------------------------------------
(* Inputs of the prop merger *)

ClassName == <<"c", "l", "a", "s", "s", "N", "a", "m", "e">>
Style == <<"s", "t", "y", "l", "e">>
OnClick == <<"o", "n", "C", "l", "i", "c", "k">>
Title == <<"t", "i", "t", "l", "e">>

PropNames == {ClassName, Style, OnClick, Title}

Color == <<"c", "o", "l", "o", "r">>
Margin == <<"m", "a", "r", "g", "i", "n">>
Red == Str(<<"r", "e", "d">>)
Blue == Str(<<"b", "l", "u", "e">>)

HandlerIds == {1, 2}
HandlerReturns == {Undefined, Str(<<"l">>), Str(<<"r">>)}
Handlers == {Handler(i, r) : i \in HandlerIds, r \in HandlerReturns}

Font == <<"f", "o", "n", "t">>

\* "", "a b", "c" and "a " (a class list with a trailing space)
Strings == {Str(<<>>), Str(<<"a", " ", "b">>), Str(<<"c">>), Str(<<"a", " ">>)}

\* {color: "red", margin: 1}, {color: "blue"}, and two mappings whose value
\* under "font" is itself a mapping
Objects ==
  {Obj(<<(<<Color, Red>>), (<<Margin, Num(1)>>)>>),
   Obj(<<(<<Color, Blue>>)>>),
   Obj(<<(<<Font, Obj(<<(<<Color, Red>>)>>)>>), (<<Color, Red>>)>>),
   Obj(<<(<<Font, Obj(<<(<<Margin, Num(1)>>)>>)>>)>>)}

\* the values mergePropVals is called with
Values == {Undefined, Null, NONE} \cup Strings \cup Objects \cup Handlers

\* the attribute sets mergeProps is called with
SetNames == {ClassName, OnClick}
SetValues == {Null, NONE, Str(<<"c">>), Handler(1, Str(<<"l">>))}
AttrSets == UNION {[D -> SetValues] : D \in SUBSET SetNames}

EventArgs == {"click", "keydown"}

-----------------------------------------------------------------------------
(* The prop merger as a state machine.  The merger keeps no state between   *)
(* calls, so a behaviour is one merge call on drawn inputs followed by the    *)
(* invocations of the handler it produced.                                    *)

\* the index-page resolver is not running
IndexIdle ==
  /\ platform = "none"
  /\ scheme = "none"
  /\ config = <<>>
  /\ fs = <<>>
  /\ pc = "idle"
  /\ err = "none"
  /\ ops = <<>>
  /\ runs = 0
  /\ prevFs = <<>>

\* no helper has been called on its own
HelperIdle ==
  /\ probe = [fn |-> "none"]
  /\ outcome = [kind |-> "none"]

\* run() has not been started
RunIdle ==
  /\ argv = [platform |-> [type |-> "undefined"],
             scheme |-> [type |-> "undefined"],
             projectId |-> [type |-> "undefined"]]
  /\ settled = [platform |-> [type |-> "undefined"], scheme |-> [type |-> "undefined"]]
  /\ projectId = [type |-> "undefined"]
  /\ rawProjectId = [type |-> "undefined"]
  /\ prompts = 0
  /\ runPc = "idle"
  /\ created = [called |-> FALSE]

OthersIdle == HelperIdle /\ RunIdle

\* no merge call has been made
MergeIdle ==
  /\ op = "none"
  /\ args = <<>>
  /\ res = Undefined
  /\ evt = "none"
  /\ calls = <<>>
  /\ ret = Undefined
  /\ counters = [i \in HandlerIds |-> 0]
  /\ invocations = 0

MergeInit == MergeIdle /\ IndexIdle /\ OthersIdle

NotInvoked ==
  /\ evt' = "none"
  /\ calls' = <<>>
  /\ ret' = Undefined
  /\ counters' = [i \in HandlerIds |-> 0]
  /\ invocations' = 0

CallMergePropVals ==
  /\ op = "none"
  /\ \E name \in PropNames, val1 \in Values, val2 \in Values :
       /\ op' = "mergePropVals"
       /\ args' = <<name, val1, val2>>
       /\ res' = mergePropVals(name, val1, val2)
       /\ NotInvoked
  /\ UNCHANGED <<indexVars, otherVars>>

CallMergeProps ==
  /\ op = "none"
  /\ \E props \in AttrSets, n \in 0..MaxOverrides :
       \E restProps \in [1..n -> AttrSets] :
         /\ op' = "mergeProps"
         /\ args' = <<props, restProps>>
         /\ res' = mergeProps(props, restProps)
         /\ NotInvoked
  /\ UNCHANGED <<indexVars, otherVars>>

\* the function the rendering layer would call for the last merge
MergedValue ==
  CASE op = "mergePropVals" -> res
    [] op = "mergeProps" -> PropOf(res, OnClick)
    [] OTHER -> Undefined

CallHandler ==
  /\ TypeOf(MergedValue) = "function"
  /\ invocations < MaxInvocations
  /\ \E a \in EventArgs :
       LET r == Invoke(MergedValue, a) IN
         /\ evt' = a
         /\ calls' = r.log
         /\ ret' = r.res
         /\ counters' = [i \in HandlerIds |->
              counters[i] + Cardinality({j \in 1..Len(r.log) : r.log[j].id = i})]
  /\ invocations' = invocations + 1
  /\ UNCHANGED <<op, args, res>>
  /\ UNCHANGED <<indexVars, otherVars>>

MergeNext == CallMergePropVals \/ CallMergeProps \/ CallHandler

SpecMerge == MergeInit /\ [][MergeNext]_vars

-----------------------------------------------------------------------------
(* Claims about the prop merger *)

\* the attribute sets of a mergeProps call, base first
InputSets == <<args[1]>> \o args[2]

NoneSupplied(k) ==
  \E i \in 1..Len(InputSets) : k \in DOMAIN InputSets[i] /\ InputSets[i][k] = NONE

\* C1: if NONE is the value of key k in the base or in any override of
\* mergeProps, the merged value of k is null, whatever the other sets supply.
C1_NoneAlwaysWins ==
  op = "mergeProps" =>
    \A k \in SetNames : NoneSupplied(k) => k \in DOMAIN res /\ res[k] = Null

\* C2: mergePropVals returns null whenever val1 or val2 is NONE, whatever the
\* key and whatever the other value.
C2_NoneDominates ==
  (op = "mergePropVals" /\ (args[2] = NONE \/ args[3] = NONE)) => res = Null

C2_Witness ==
  /\ op = "mergePropVals"
  /\ args[1] = OnClick
  /\ args[2] \in Handlers
  /\ args[3] = NONE
  /\ res = Null

\* null and undefined are both nil: values are compared up to that
SameValue(x, y) == x = y \/ (~notNil(x) /\ ~notNil(y))

\* C3: for mergeProps(a, b, c) and every key k, the merged value of k equals
\* mergePropVals(k, mergePropVals(k, a[k], b[k]), c[k]), a missing key read as
\* nil.
C3_FoldPerKey ==
  (op = "mergeProps" /\ Len(args[2]) = 2) =>
    \A k \in PropNames :
      SameValue(PropOf(res, k),
                mergePropVals(k,
                  mergePropVals(k, PropOf(args[1], k), PropOf(args[2][1], k)),
                  PropOf(args[2][2], k)))

\* an on-event key merged from two user handlers, and the result invoked
HandlersMergedAndInvoked ==
  /\ op = "mergePropVals"
  /\ StartsWith(args[1], <<"o", "n">>)
  /\ args[2] \in Handlers
  /\ args[3] \in Handlers
  /\ invocations > 0

\* C4: each invocation of the handler merged from two callables calls the left
\* handler once, then the right handler once, both with the arguments the
\* merged handler received.
C4_LeftThenRight ==
  HandlersMergedAndInvoked =>
    /\ calls = <<[id |-> args[2].id, args |-> evt], [id |-> args[3].id, args |-> evt]>>
    /\ args[2].id # args[3].id =>
         /\ counters[args[2].id] = invocations
         /\ counters[args[3].id] = invocations

C4_Witness ==
  /\ HandlersMergedAndInvoked
  /\ args[2].id = 1
  /\ args[3].id = 2
  /\ invocations = 2
  /\ counters = [i \in HandlerIds |-> 2]

\* C5: the handler merged from two callables returns the right handler's
\* return value when that is defined, and otherwise the left handler's.
C5_LastDefinedReturn ==
  HandlersMergedAndInvoked =>
    ret = IF args[3].ret # Undefined THEN args[3].ret ELSE args[2].ret

\* mergePropVals was called with neither value the NONE sentinel
CalledWithoutNone ==
  /\ op = "mergePropVals"
  /\ args[2] # NONE
  /\ args[3] # NONE

\* C13: when neither value is NONE, mergePropVals returns val2 if val1 is nil,
\* and val1 if val2 is nil and val1 is not, whatever the key.
C13_NilPrefersOther ==
  CalledWithoutNone =>
    /\ ~notNil(args[2]) => res = args[3]
    /\ (notNil(args[2]) /\ ~notNil(args[3])) => res = args[2]

\* for the className key a string met undefined and was returned unchanged
C13_Witness ==
  /\ CalledWithoutNone
  /\ args[1] = ClassName
  /\ args[2] = Str(<<"a", " ", "b">>)
  /\ args[3] = Undefined
  /\ res = Str(<<"a", " ", "b">>)

\* C14: when both values are non-nil, neither is NONE and their runtime types
\* differ, mergePropVals returns val2 unchanged, whatever the key.
C14_TypesDifferRightWins ==
  (/\ CalledWithoutNone
   /\ notNil(args[2])
   /\ notNil(args[3])
   /\ TypeOf(args[2]) # TypeOf(args[3])) => res = args[3]

\* for the className key a string met a style mapping
C14_Witness ==
  /\ CalledWithoutNone
  /\ args[1] = ClassName
  /\ args[2] = Str(<<"c">>)
  /\ args[3] \in Objects
  /\ res = args[3]

RECURSIVE Tokens(_)
\* the space-separated tokens of a class list
Tokens(chars) ==
  LET at == {i \in 1..Len(chars) : chars[i] = " "}
      i == IF at = {} THEN 0 ELSE CHOOSE k \in at : \A j \in at : k <= j
  IN IF chars = <<>> THEN <<>>
     ELSE IF i = 0 THEN <<chars>>
     ELSE IF i = 1 THEN Tokens(Tail(chars))
     ELSE <<SubSeq(chars, 1, i - 1)>> \o Tokens(SubSeq(chars, i + 1, Len(chars)))

\* mergePropVals was called for className with two strings
ClassNamesMerged ==
  /\ op = "mergePropVals"
  /\ args[1] = ClassName
  /\ args[2].type = "string"
  /\ args[3].type = "string"

\* C15 as claimed: for className and two strings the result is the tokens of
\* val1 followed by the tokens of val2, joined by single spaces.
C15_TokensSingleSpaced ==
  ClassNamesMerged =>
    res = Str(JoinSpace(Tokens(args[2].chars) \o Tokens(args[3].chars)))

\* C15 amended: for className and two strings the result is val1, one space
\* and val2, each verbatim, an empty string adding neither text nor space; so
\* the tokens of the result are those of val1 followed by those of val2.
C15_VerbatimJoin ==
  ClassNamesMerged =>
    /\ res.type = "string"
    /\ res.chars = IF args[2].chars = <<>> THEN args[3].chars
                   ELSE IF args[3].chars = <<>> THEN args[2].chars
                   ELSE args[2].chars \o <<" ">> \o args[3].chars
    /\ Tokens(res.chars) = Tokens(args[2].chars) \o Tokens(args[3].chars)

\* "a b" merged with "c" gave "a b c"
C15_Witness ==
  /\ ClassNamesMerged
  /\ args[2] = Str(<<"a", " ", "b">>)
  /\ args[3] = Str(<<"c">>)
  /\ res = Str(<<"a", " ", "b", " ", "c">>)

\* mergePropVals was called for style with two mappings
StylesMerged ==
  /\ op = "mergePropVals"
  /\ args[1] = Style
  /\ args[2].type = "object"
  /\ args[3].type = "object"

\* C16: for style and two mappings the result has the union of both key sets,
\* val2's value under every key of val2 and val1's value under every key only
\* val1 has; a value that is itself a mapping is taken whole.
C16_ShallowStyleUnion ==
  StylesMerged =>
    /\ res.type = "object"
    /\ EntryKeys(res.entries) = EntryKeys(args[2].entries) \cup EntryKeys(args[3].entries)
    /\ Len(res.entries) = Cardinality(EntryKeys(res.entries))
    /\ \A k \in EntryKeys(res.entries) :
         EntryValue(res.entries, k) =
           IF k \in EntryKeys(args[3].entries)
           THEN EntryValue(args[3].entries, k)
           ELSE EntryValue(args[2].entries, k)

\* both mappings have a mapping under "font": the result has val2's, and keeps
\* the color only val1 has
C16_Witness ==
  /\ StylesMerged
  /\ Font \in EntryKeys(args[2].entries)
  /\ Font \in EntryKeys(args[3].entries)
  /\ EntryValue(args[2].entries, Font) # EntryValue(args[3].entries, Font)
  /\ EntryValue(res.entries, Font) = Obj(<<(<<Margin, Num(1)>>)>>)
  /\ EntryValue(res.entries, Color) = Red

-----------------------------------------------------------------------------
(* Paths (upath: "/" separated) *)

\* index of the last "/" of path p, 0 when it has none
LastSlash(p) ==
  LET at == {i \in 1..Len(p) : p[i] = "/"}
  IN IF at = {} THEN 0 ELSE CHOOSE i \in at : \A j \in at : j <= i

basename(p) == SubSeq(p, LastSlash(p) + 1, Len(p))

dirname(p) == SubSeq(p, 1, LastSlash(p) - 1)

\* path.join of two normalised parts, the second one relative
join(a, b) ==
  IF a # <<>> /\ a[Len(a)] = "/" THEN a \o b ELSE a \o <<"/">> \o b

(* glob.sync for the three patterns overwriteIndex uses.  A pattern is       *)
(*   dirs  - the directories the last segment is matched in,                  *)
(*   deep  - TRUE when a "**" segment also admits every directory below them, *)
(*   stems - the alternatives s of a last segment "s.*", or {} for "*.*".      *)
(* "*" matches any run of characters without "/", and no leading ".".         *)

NameMatches(b, stems) ==
  IF stems = {}
  THEN b # <<>> /\ b[1] # "." /\ Includes(b, <<".">>)
  ELSE \E st \in stems : StartsWith(b, st \o <<".">>)

RECURSIVE NoDotSegment(_)
\* no directory name of the path begins with "." ("**" does not enter those)
NoDotSegment(p) ==
  LET at == {i \in 1..Len(p) : p[i] = "/"}
      i == IF at = {} THEN Len(p) + 1 ELSE CHOOSE k \in at : \A j \in at : k <= j
  IN IF p = <<>> THEN TRUE
     ELSE /\ p[1] # "."
          /\ NoDotSegment(SubSeq(p, i + 1, Len(p)))

DirMatches(d, pattern) ==
  \E top \in pattern.dirs :
    \/ d = top
    \/ /\ pattern.deep
       /\ StartsWith(d, top \o <<"/">>)
       /\ NoDotSegment(SubSeq(d, Len(top) + 2, Len(d)))

(* The paths of the model, spelled out as character sequences *)

\* /p/pages/index.js
PAGES_INDEX_JS ==
  <<"/", "p", "/", "p", "a", "g", "e", "s", "/", "i", "n", "d", "e", "x", ".", "j", "s">>

\* /p/pages/index.jsx
PAGES_INDEX_JSX ==
  <<"/", "p", "/", "p", "a", "g", "e", "s", "/", "i", "n", "d", "e", "x", ".", "j", "s", "x">>

\* /p/pages/index.tsx
PAGES_INDEX_TSX ==
  <<"/", "p", "/", "p", "a", "g", "e", "s", "/", "i", "n", "d", "e", "x", ".", "t", "s", "x">>

\* /p/src/App.css
SRC_APP_CSS ==
  <<"/", "p", "/", "s", "r", "c", "/", "A", "p", "p", ".", "c", "s", "s">>

\* /p/src/App.jsx
SRC_APP_JSX ==
  <<"/", "p", "/", "s", "r", "c", "/", "A", "p", "p", ".", "j", "s", "x">>

\* /p/src/App.tsx
SRC_APP_TSX ==
  <<"/", "p", "/", "s", "r", "c", "/", "A", "p", "p", ".", "t", "s", "x">>

\* /p/src/components/Home.tsx
SRC_COMPONENTS_HOME_TSX ==
  <<"/", "p", "/", "s", "r", "c", "/", "c", "o", "m", "p", "o", "n", "e", "n", "t", "s", "/", "H", "o", "m", "e", ".", "t", "s", "x">>

\* /p/src/pages/index.jsx
SRC_PAGES_INDEX_JSX ==
  <<"/", "p", "/", "s", "r", "c", "/", "p", "a", "g", "e", "s", "/", "i", "n", "d", "e", "x", ".", "j", "s", "x">>

\* /p/src/pages/index.tsx
SRC_PAGES_INDEX_TSX ==
  <<"/", "p", "/", "s", "r", "c", "/", "p", "a", "g", "e", "s", "/", "i", "n", "d", "e", "x", ".", "t", "s", "x">>

\* /p/src/components/.cache/home.js
SRC_COMPONENTS_CACHE_HOME_JS ==
  <<"/", "p", "/", "s", "r", "c", "/", "c", "o", "m", "p", "o", "n", "e", "n", "t", "s", "/", ".", "c", "a", "c", "h", "e", "/", "h", "o", "m", "e", ".", "j", "s">>

\* /p/src/components/HOME.tsx
SRC_COMPONENTS_HOME_UPPER_TSX ==
  <<"/", "p", "/", "s", "r", "c", "/", "c", "o", "m", "p", "o", "n", "e", "n", "t", "s", "/", "H", "O", "M", "E", ".", "t", "s", "x">>

\* /p/src/components/Homepage.tsx
SRC_COMPONENTS_HOMEPAGE_TSX ==
  <<"/", "p", "/", "s", "r", "c", "/", "c", "o", "m", "p", "o", "n", "e", "n", "t", "s", "/", "H", "o", "m", "e", "p", "a", "g", "e", ".", "t", "s", "x">>

\* /p/src/components/index.module.css
SRC_COMPONENTS_INDEX_MODULE_CSS ==
  <<"/", "p", "/", "s", "r", "c", "/", "c", "o", "m", "p", "o", "n", "e", "n", "t", "s", "/", "i", "n", "d", "e", "x", ".", "m", "o", "d", "u", "l", "e", ".", "c", "s", "s">>

\* /p/src/components/Index.tsx
SRC_COMPONENTS_INDEX_CAP_TSX ==
  <<"/", "p", "/", "s", "r", "c", "/", "c", "o", "m", "p", "o", "n", "e", "n", "t", "s", "/", "I", "n", "d", "e", "x", ".", "t", "s", "x">>

\* /p/src/components/sub/home.jsx
SRC_COMPONENTS_SUB_HOME_JSX ==
  <<"/", "p", "/", "s", "r", "c", "/", "c", "o", "m", "p", "o", "n", "e", "n", "t", "s", "/", "s", "u", "b", "/", "h", "o", "m", "e", ".", "j", "s", "x">>

\* /p/src/index.tsx
SRC_INDEX_TSX ==
  <<"/", "p", "/", "s", "r", "c", "/", "i", "n", "d", "e", "x", ".", "t", "s", "x">>

\* every path that can be on disk, in the order glob sorts its results
SortedPaths ==
  <<PAGES_INDEX_JS, PAGES_INDEX_JSX, PAGES_INDEX_TSX, SRC_APP_CSS, SRC_APP_JSX,
    SRC_APP_TSX, SRC_COMPONENTS_CACHE_HOME_JS, SRC_COMPONENTS_HOME_TSX,
    SRC_COMPONENTS_HOME_UPPER_TSX, SRC_COMPONENTS_HOMEPAGE_TSX,
    SRC_COMPONENTS_INDEX_MODULE_CSS, SRC_COMPONENTS_INDEX_CAP_TSX,
    SRC_COMPONENTS_SUB_HOME_JSX, SRC_INDEX_TSX, SRC_PAGES_INDEX_JSX,
    SRC_PAGES_INDEX_TSX>>

globSync(pattern, files) ==
  SelectSeq(SortedPaths,
            LAMBDA f : /\ f \in DOMAIN files
                       /\ DirMatches(dirname(f), pattern)
                       /\ NameMatches(basename(f), pattern.stems))

\* deleteGlob without the skipPatterns filter
filesToDelete_NoSkip(searchPattern, skipPatterns, files) ==
  globSync(searchPattern, files)

\* the files deleteGlob unlinks, in order
filesToDelete(searchPattern, skipPatterns, files) ==
  SelectSeq(globSync(searchPattern, files),
            LAMBDA file : ~(\E pattern \in skipPatterns : Includes(file, pattern)))

Range(q) == {q[i] : i \in 1..Len(q)}

\* the disk after unlinkSync of every file of the sequence
Unlinked(files, gone) == [f \in (DOMAIN files) \ Range(gone) |-> files[f]]

UnlinkOps(gone) == [i \in 1..Len(gone) |-> [kind |-> "unlink", path |-> gone[i]]]

RECURSIVE Split(_)
\* the non-empty segments of a path
Split(p) ==
  LET at == {i \in 1..Len(p) : p[i] = "/"}
      i == IF at = {} THEN 0 ELSE CHOOSE k \in at : \A j \in at : k <= j
  IN IF p = <<>> THEN <<>>
     ELSE IF i = 0 THEN <<p>>
     ELSE IF i = 1 THEN Split(Tail(p))
     ELSE <<SubSeq(p, 1, i - 1)>> \o Split(SubSeq(p, i + 1, Len(p)))

RECURSIVE JoinSlash(_)
JoinSlash(segs) ==
  IF segs = <<>> THEN <<>>
  ELSE IF Len(segs) = 1 THEN segs[1]
  ELSE segs[1] \o <<"/">> \o JoinSlash(Tail(segs))

\* path.relative of two absolute normalised paths
relative(from, to) ==
  LET a == Split(from)
      b == Split(to)
      same == {n \in 0..Len(a) : n <= Len(b) /\ SubSeq(a, 1, n) = SubSeq(b, 1, n)}
      n == CHOOSE k \in same : \A j \in same : j <= k
  IN JoinSlash([i \in 1..(Len(a) - n) |-> <<".", ".">>] \o SubSeq(b, n + 1, Len(b)))

\* process.cwd(), the project directory /p: path.relative resolves relative
\* arguments against it
Cwd ==
  <<"/", "p">>

RECURSIVE Normalise(_, _)
\* the segments of a path with "." dropped and ".." applied
Normalise(done, rest) ==
  IF rest = <<>> THEN done
  ELSE IF Head(rest) = <<".">> THEN Normalise(done, Tail(rest))
  ELSE IF Head(rest) = <<".", ".">>
    THEN Normalise(IF done = <<>> THEN <<>> ELSE SubSeq(done, 1, Len(done) - 1),
                   Tail(rest))
  ELSE Normalise(Append(done, Head(rest)), Tail(rest))

\* path.resolve of one path
resolve(p) ==
  <<"/">> \o JoinSlash(Normalise(<<>>, IF p # <<>> /\ p[1] = "/"
                                        THEN Split(p)
                                        ELSE Split(Cwd) \o Split(p)))

\* path.relative of any two paths
pathRelative(from, to) == relative(resolve(from), resolve(to))

\* path.extname: from the last "." of the basename, "" when there is none or
\* when it is the first character of the basename
extname(p) ==
  LET b == basename(p)
      at == {i \in 1..Len(b) : b[i] = "."}
      i == IF at = {} THEN 0 ELSE CHOOSE k \in at : \A j \in at : j <= k
  IN IF i <= 1 THEN <<>> ELSE SubSeq(b, i, Len(b))

\* stripExtension(filename) with removeComposedPath = false
stripExtension(filename) ==
  LET ext == extname(filename)
  IN IF ext = <<>> \/ filename = ext THEN filename
     ELSE SubSeq(filename, 1, Len(filename) - Len(ext))

-----------------------------------------------------------------------------
(* Inputs of overwriteIndex *)

\* /p
ProjectPath ==
  <<"/", "p">>

Platforms == {"nextjs", "gatsby", "react", "other"}
Schemes == {"codegen", "loader", "other"}
Langs == {"ts", "js"}

\* the srcDir of the manifest: src/components
SrcDir ==
  <<"s", "r", "c", "/", "c", "o", "m", "p", "o", "n", "e", "n", "t", "s">>

Component(modulePath, componentType, name) ==
  [importSpec |-> [modulePath |-> modulePath],
   componentType |-> componentType,
   name |-> name]

\* the components a manifest can list, in manifest order:
\* "../pages/index.tsx", "index.tsx", "App.tsx", "Home.tsx"
AllComponents ==
  <<Component(<<".", ".", "/", "p", "a", "g", "e", "s", "/", "i", "n", "d", "e", "x", ".", "t", "s", "x">>,
              "page", "Homepage"),
    Component(<<"i", "n", "d", "e", "x", ".", "t", "s", "x">>, "page", "Index"),
    Component(<<"A", "p", "p", ".", "t", "s", "x">>, "component", "App"),
    Component(<<"H", "o", "m", "e", ".", "t", "s", "x">>, "component", "Home")>>

RECURSIVE JoinComponents(_)
\* L.flatMap(config.projects, (p) => p.components)
JoinComponents(projects) ==
  IF projects = <<>> THEN <<>>
  ELSE Head(projects).components \o JoinComponents(Tail(projects))

ComponentLists ==
  {SelectSeq(AllComponents, LAMBDA c : c \in chosen) :
     chosen \in {S \in SUBSET Range(AllComponents) : Cardinality(S) <= MaxComponents}}

\* the pagesDir of nextjsConfig / gatsbyConfig: absent, or "../pages"
PagesDirSettings == {Undefined, Str(<<".", ".", "/", "p", "a", "g", "e", "s">>)}

Configs ==
  {[code |-> [lang |-> l],
    srcDir |-> SrcDir,
    pagesDir |-> pd,
    projects |-> <<[components |-> comps]>>] :
     l \in Langs, pd \in PagesDirSettings, comps \in ComponentLists}

\* the files a freshly scaffolded and synced project can have
InitialFiles ==
  {PAGES_INDEX_JS, PAGES_INDEX_TSX, SRC_APP_CSS, SRC_APP_TSX,
   SRC_COMPONENTS_HOME_TSX, SRC_PAGES_INDEX_TSX}

-----------------------------------------------------------------------------
(* overwriteIndex *)

\* ensure(x) of utils/lang-utils: fails when x is null or undefined
ensure(x) == [ok |-> notNil(x), value |-> x]

isNextjs == platform = "nextjs"
isGatsby == platform = "gatsby"
isCra == platform = "react"
isLoader == scheme = "loader"
isCodegen == scheme = "codegen"

\* the manifest path without the gatsby loader branch
configPath_NoGatsbyLoader ==
  IF isCodegen THEN Str(<<"p", "l", "a", "s", "m", "i", "c", ".", "j", "s", "o", "n">>)
  ELSE IF isNextjs /\ isLoader
    THEN Str(<<".", "p", "l", "a", "s", "m", "i", "c", "/", "p", "l", "a", "s", "m", "i", "c", ".", "j", "s", "o", "n">>)
  ELSE Undefined

\* the argument of the first ensure: "plasmic.json", ".plasmic/plasmic.json",
\* ".cache/.plasmic/plasmic.json" or undefined
configPath ==
  IF isCodegen THEN Str(<<"p", "l", "a", "s", "m", "i", "c", ".", "j", "s", "o", "n">>)
  ELSE IF isNextjs /\ isLoader
    THEN Str(<<".", "p", "l", "a", "s", "m", "i", "c", "/", "p", "l", "a", "s", "m", "i", "c", ".", "j", "s", "o", "n">>)
  ELSE IF isGatsby /\ isLoader
    THEN Str(<<".", "c", "a", "c", "h", "e", "/", ".", "p", "l", "a", "s", "m", "i", "c", "/", "p", "l", "a", "s", "m", "i", "c", ".", "j", "s", "o", "n">>)
  ELSE Undefined

plasmicFiles ==
  LET comps == JoinComponents(config.projects)
  IN [i \in 1..Len(comps) |-> comps[i].importSpec.modulePath]

isTypescript == config.code.lang = "ts"

\* the argument of the second ensure: "pages/", "src/pages/" or "src/" under
\* the project, or undefined
pagesDir ==
  IF isNextjs THEN Str(join(ProjectPath, <<"p", "a", "g", "e", "s", "/">>))
  ELSE IF isGatsby THEN Str(join(ProjectPath, <<"s", "r", "c", "/", "p", "a", "g", "e", "s", "/">>))
  ELSE IF isCra THEN Str(join(ProjectPath, <<"s", "r", "c", "/">>))
  ELSE Undefined

indexBasename == IF isCra THEN <<"A", "p", "p">> ELSE <<"i", "n", "d", "e", "x">>

extension == IF isTypescript THEN <<"t", "s", "x">> ELSE <<"j", "s", "x">>

indexAbsPath == join(pagesDir.chars, indexBasename \o <<".">> \o extension)

\* plasmicFiles.map((f) => path.basename(f))
skipPatterns == {basename(plasmicFiles[i]) : i \in 1..Len(plasmicFiles)}

\* a directory without its trailing "/"
Dir(d) == IF d # <<>> /\ d[Len(d)] = "/" THEN SubSeq(d, 1, Len(d) - 1) ELSE d

\* path.join(pagesDir, `${indexBasename}.*`)
IndexPattern ==
  [dirs |-> {Dir(pagesDir.chars)}, deep |-> FALSE, stems |-> {indexBasename}]

\* path.join(projectPath, "src/@(pages|components)/*.*")
GatsbyPattern ==
  [dirs |-> {join(ProjectPath, <<"s", "r", "c", "/", "p", "a", "g", "e", "s">>),
             join(ProjectPath, <<"s", "r", "c", "/", "c", "o", "m", "p", "o", "n", "e", "n", "t", "s">>)},
   deep |-> FALSE,
   stems |-> {}]

\* the home glob without the "**" segment
HomeGlob_Shallow(srcDir) ==
  [dirs |-> {join(ProjectPath, srcDir)},
   deep |-> FALSE,
   stems |-> {<<"i", "n", "d", "e", "x">>, <<"H", "o", "m", "e">>, <<"h", "o", "m", "e">>}]

\* path.join(projectPath, srcDir, "**", "@(index|Home|home).*")
HomeGlob(srcDir) ==
  [dirs |-> {join(ProjectPath, srcDir)},
   deep |-> TRUE,
   stems |-> {<<"i", "n", "d", "e", "x">>, <<"H", "o", "m", "e">>, <<"h", "o", "m", "e">>}]

\* the home glob of the manifest read by overwriteIndex
HomePattern == HomeGlob(config.srcDir)

\* the early return taken for nextjs only
canRenderIndex_NextjsOnly ==
  /\ isNextjs
  /\ \E i \in 1..Len(plasmicFiles) :
       Includes(plasmicFiles[i], <<"/", "i", "n", "d", "e", "x", ".">>)

\* "We're done if we can already render an index page"
canRenderIndex ==
  /\ isNextjs \/ isGatsby
  /\ \E i \in 1..Len(plasmicFiles) :
       Includes(plasmicFiles[i], <<"/", "i", "n", "d", "e", "x", ".">>)

\* the wrapper that imports and renders the discovered component
generateHomePage(componentAbsPath, indexPath) ==
  [kind |-> "home",
   componentName |-> stripExtension(basename(componentAbsPath)),
   importPath |-> <<".", "/">> \o
                  stripExtension(relative(dirname(indexPath), componentAbsPath))]

\* the text of the template outside the page section (lines 276-304)
WelcomeMarkup == "Welcome to Plasmic!"

\* one <li> of the page section: href and text "name - href"
PageLink(cfg, pageComponent) ==
  LET relativePath ==
        pathRelative(cfg.pagesDir.chars, pageComponent.importSpec.modulePath)
      relativeLink == <<"/">> \o stripExtension(relativePath)
  IN [href |-> relativeLink, name |-> pageComponent.name, link |-> relativeLink]

\* the welcome page listing every component, whatever its componentType
generateWelcomePage_AllComponents(cfg, noPages) ==
  LET pageComponents == JoinComponents(cfg.projects)
      pageSection ==
        IF noPages THEN <<>>
        ELSE IF Len(pageComponents) <= 0 \/ ~Truthy(cfg.pagesDir) THEN <<>>
        ELSE [i \in 1..Len(pageComponents) |-> PageLink(cfg, pageComponents[i])]
  IN [kind |-> "welcome", markup |-> WelcomeMarkup, pageSection |-> pageSection]

\* the welcome page: the fixed markup, and the page section listing the page
\* components (empty when noPages, when there is no page component or when
\* neither nextjsConfig nor gatsbyConfig names a pagesDir)
generateWelcomePage(cfg, noPages) ==
  LET pageComponents ==
        SelectSeq(JoinComponents(cfg.projects), LAMBDA c : c.componentType = "page")
      pageSection ==
        IF noPages THEN <<>>
        ELSE IF Len(pageComponents) <= 0 \/ ~Truthy(cfg.pagesDir) THEN <<>>
        ELSE [i \in 1..Len(pageComponents) |-> PageLink(cfg, pageComponents[i])]
  IN [kind |-> "welcome", markup |-> WelcomeMarkup, pageSection |-> pageSection]

-----------------------------------------------------------------------------
(* overwriteIndex as a state machine: one action per statement that touches   *)
(* the disk, so that the disk between two of them is a state.                  *)

Original == [kind |-> "original"]

IndexInit ==
  /\ MergeIdle
  /\ OthersIdle
  /\ platform \in Platforms
  /\ scheme \in Schemes
  /\ config \in Configs
  /\ fs \in {[f \in S |-> Original] : S \in SUBSET InitialFiles}
  /\ pc = "start"
  /\ err = "none"
  /\ ops = <<>>
  /\ runs = 1
  /\ prevFs = <<>>

inputs == <<platform, scheme, config>>

Throw(kind) ==
  /\ pc' = "failed"
  /\ err' = kind
  /\ UNCHANGED <<inputs, fs, ops, runs, prevFs, mergeVars, otherVars>>

\* the manifest read without the ensure on its path
ReadConfig_NoEnsure ==
  /\ pc = "start"
  /\ pc' = "configured"
  /\ UNCHANGED <<inputs, fs, err, ops, runs, prevFs, mergeVars, otherVars>>

\* lines 130-150: resolve the manifest path and read the manifest
ReadConfig ==
  /\ pc = "start"
  /\ IF ~ensure(configPath).ok
     THEN Throw("configuration")
     ELSE /\ pc' = "configured"
          /\ UNCHANGED <<inputs, fs, err, ops, runs, prevFs, mergeVars, otherVars>>

\* line 145: fs.readFile rejects (the error is not caught)
ReadConfigFails ==
  /\ pc = "start"
  /\ ensure(configPath).ok
  /\ Throw("filesystem")

\* the first sweep deleting nothing
DeleteIndexFiles_NoSweep ==
  /\ pc = "configured"
  /\ IF ~ensure(pagesDir).ok
     THEN Throw("configuration")
     ELSE /\ pc' = "sweptIndex"
          /\ UNCHANGED <<inputs, fs, ops, err, runs, prevFs, mergeVars, otherVars>>

\* lines 152-172: resolve the pages directory, delete the existing index files
DeleteIndexFiles ==
  /\ pc = "configured"
  /\ IF ~ensure(pagesDir).ok
     THEN Throw("configuration")
     ELSE LET gone == filesToDelete(IndexPattern, skipPatterns, fs) IN
            /\ fs' = Unlinked(fs, gone)
            /\ ops' = ops \o UnlinkOps(gone)
            /\ pc' = "sweptIndex"
            /\ UNCHANGED <<inputs, err, runs, prevFs, mergeVars, otherVars>>

\* lines 176-182: for gatsby, delete the files of src/pages and src/components
DeleteGatsbyFiles ==
  /\ pc = "sweptIndex"
  /\ LET gone == IF platform = "gatsby"
                 THEN filesToDelete(GatsbyPattern, skipPatterns, fs)
                 ELSE <<>>
     IN /\ fs' = Unlinked(fs, gone)
        /\ ops' = ops \o UnlinkOps(gone)
  /\ pc' = "swept"
  /\ UNCHANGED <<inputs, err, runs, prevFs, mergeVars, otherVars>>

\* lines 185-190: return when the manifest already has an index page
ReturnEarly ==
  /\ pc = "swept"
  /\ canRenderIndex
  /\ pc' = "done"
  /\ UNCHANGED <<inputs, fs, err, ops, runs, prevFs, mergeVars, otherVars>>

\* the final write choosing the wrapper on every platform
WriteIndex_HomeAnyPlatform ==
  /\ pc = "swept"
  /\ ~canRenderIndex
  /\ LET homeFilePossibilities == globSync(HomePattern, fs)
         content == IF Len(homeFilePossibilities) > 0
                    THEN generateHomePage(homeFilePossibilities[1], indexAbsPath)
                    ELSE generateWelcomePage(config, isCra)
         prior == IF indexAbsPath \in DOMAIN fs THEN fs[indexAbsPath]
                  ELSE [kind |-> "absent"]
     IN /\ fs' = [f \in (DOMAIN fs) \cup {indexAbsPath} |->
                    IF f = indexAbsPath THEN content ELSE fs[f]]
        /\ ops' = Append(ops, [kind |-> "write", path |-> indexAbsPath,
                               content |-> content, prior |-> prior])
  /\ pc' = "done"
  /\ UNCHANGED <<inputs, err, runs, prevFs, mergeVars, otherVars>>

\* lines 192-204: scan for a home component, generate and write the index file
WriteIndex ==
  /\ pc = "swept"
  /\ ~canRenderIndex
  /\ LET homeFilePossibilities == globSync(HomePattern, fs)
         content == IF isCra /\ Len(homeFilePossibilities) > 0
                    THEN generateHomePage(homeFilePossibilities[1], indexAbsPath)
                    ELSE generateWelcomePage(config, isCra)
         prior == IF indexAbsPath \in DOMAIN fs THEN fs[indexAbsPath]
                  ELSE [kind |-> "absent"]
     IN /\ fs' = [f \in (DOMAIN fs) \cup {indexAbsPath} |->
                    IF f = indexAbsPath THEN content ELSE fs[f]]
        /\ ops' = Append(ops, [kind |-> "write", path |-> indexAbsPath,
                               content |-> content, prior |-> prior])
  /\ pc' = "done"
  /\ UNCHANGED <<inputs, err, runs, prevFs, mergeVars, otherVars>>

\* the process is stopped after the sweeps (line 182) and before the write
\* (line 204): nothing more of the run happens
Interrupt ==
  /\ pc = "swept"
  /\ pc' = "interrupted"
  /\ UNCHANGED <<inputs, fs, err, ops, runs, prevFs, mergeVars, otherVars>>

\* overwriteIndex is run again on the same project with the same arguments
RunAgain ==
  /\ pc = "done"
  /\ runs < MaxRuns
  /\ runs' = runs + 1
  /\ prevFs' = fs
  /\ pc' = "start"
  /\ ops' = <<>>
  /\ UNCHANGED <<inputs, fs, err, mergeVars, otherVars>>

IndexNext ==
  \/ ReadConfig
  \/ ReadConfigFails
  \/ DeleteIndexFiles
  \/ DeleteGatsbyFiles
  \/ ReturnEarly
  \/ WriteIndex
  \/ Interrupt
  \/ RunAgain

SpecIndex == IndexInit /\ [][IndexNext]_vars

-----------------------------------------------------------------------------
(* Claims about overwriteIndex *)

\* the basenames of the manifest's module paths
ManifestBasenames ==
  {basename(c.importSpec.modulePath) : c \in Range(JoinComponents(config.projects))}

UnlinkedPaths == {ops[i].path : i \in {j \in 1..Len(ops) : ops[j].kind = "unlink"}}

Writes == SelectSeq(ops, LAMBDA o : o.kind = "write")

\* C6: overwriteIndex never deletes a file whose basename is the basename of a
\* manifest component's module path, in neither of its two sweeps.
C6_ProtectedNeverDeleted ==
  \A f \in UnlinkedPaths : basename(f) \notin ManifestBasenames

\* both sweeps ran, deleted something and passed over a protected file that
\* their patterns match
C6_Witness ==
  /\ pc = "swept"
  /\ isGatsby
  /\ UnlinkedPaths # {}
  /\ \E f \in DOMAIN fs :
       /\ basename(f) \in ManifestBasenames
       /\ f \in Range(globSync(IndexPattern, fs))
  /\ \E f \in DOMAIN fs :
       /\ basename(f) \in ManifestBasenames
       /\ f \in Range(globSync(GatsbyPattern, fs)) \ Range(globSync(IndexPattern, fs))

\* C7: the final write of overwriteIndex never replaces a file that the
\* manifest protects (its basename is that of a manifest module path) and that
\* survived the sweeps at the entry path.
C7_ProtectedNeverOverwritten ==
  \A i \in 1..Len(Writes) :
    ~(Writes[i].prior.kind = "original" /\ basename(Writes[i].path) \in ManifestBasenames)

HasIndexPage ==
  \E c \in Range(JoinComponents(config.projects)) :
    Includes(c.importSpec.modulePath, <<"/", "i", "n", "d", "e", "x", ".">>)

\* C8: for nextjs or gatsby with a manifest module path containing "/index.",
\* overwriteIndex writes no file, and a second run in succession writes nothing
\* and leaves the files of the first run as they are.
C8_SatisfiedProjectUntouched ==
  (platform \in {"nextjs", "gatsby"} /\ HasIndexPage) =>
    /\ Writes = <<>>
    /\ runs >= 2 => (fs = prevFs /\ ops = <<>>)

C8_Witness ==
  /\ platform = "nextjs"
  /\ HasIndexPage
  /\ runs = 2
  /\ pc = "done"
  /\ PAGES_INDEX_TSX \in DOMAIN fs
  /\ PAGES_INDEX_JS \notin DOMAIN fs
  /\ SRC_APP_TSX \in DOMAIN fs

\* C9: when no configuration file path or no pages directory can be resolved
\* for (platform, scheme), overwriteIndex ends with an error, and it has
\* deleted and written nothing.
C9_FailFast ==
  (~notNil(configPath) \/ ~notNil(pagesDir)) =>
    /\ pc \in {"start", "configured", "failed"}
    /\ pc = "configured" => notNil(configPath)
    /\ pc = "failed" => err \in {"configuration", "filesystem"}
    /\ ops = <<>>
    /\ \A f \in DOMAIN fs : fs[f] = Original

\* the manifest path resolved, the pages directory did not: the run failed
\* with every file still in place
C9_Witness ==
  /\ platform = "other"
  /\ scheme = "codegen"
  /\ pc = "failed"
  /\ err = "configuration"
  /\ DOMAIN fs = InitialFiles

\* C10 as claimed: each of the six pairs of {nextjs, gatsby, react} and
\* {codegen, loader} resolves a configuration file path and a pages directory
\* and raises no configuration error.
C10_SixPairsSupported ==
  (platform \in {"nextjs", "gatsby", "react"} /\ scheme \in {"codegen", "loader"}) =>
    /\ pc # "start" => notNil(configPath)
    /\ pc \in {"sweptIndex", "swept", "done"} => notNil(pagesDir)
    /\ err # "configuration"

\* C10 amended: the five pairs other than (react, loader) resolve a
\* configuration file path and a pages directory and raise no configuration
\* error; for (react, loader) no configuration file path is resolved and the
\* run ends with a configuration error before the manifest is read.
C10_FivePairsSupported ==
  /\ (/\ platform \in {"nextjs", "gatsby", "react"}
      /\ scheme \in {"codegen", "loader"}
      /\ ~(platform = "react" /\ scheme = "loader")) =>
       /\ pc # "start" => notNil(configPath)
       /\ pc \in {"sweptIndex", "swept", "done"} => notNil(pagesDir)
       /\ err # "configuration"
  /\ (platform = "react" /\ scheme = "loader") =>
       /\ ~notNil(configPath)
       /\ pc \in {"start", "failed"}
       /\ pc = "failed" => err = "configuration"

C10_Witness ==
  /\ platform = "gatsby"
  /\ scheme = "loader"
  /\ pc = "done"
  /\ err = "none"
  /\ Writes # <<>>

\* the disk as it was just before the write w
BeforeWrite(w) ==
  IF w.prior.kind = "absent" THEN Unlinked(fs, <<w.path>>) ELSE fs

\* C11: a run of overwriteIndex that does not return early writes exactly one
\* file, at the resolved entry path; the content is the wrapper of the
\* discovered home component exactly when the platform is react and the home
\* scan found a file, and the welcome page otherwise.
C11_OneWriteWrapperOrWelcome ==
  /\ Len(Writes) <= 1
  /\ (pc = "done" /\ ~canRenderIndex) =>
       /\ Len(Writes) = 1
       /\ LET w == Writes[1]
              found == globSync(HomePattern, BeforeWrite(w))
          IN /\ w.path = indexAbsPath
             /\ fs[indexAbsPath] = w.content
             /\ IF isCra /\ Len(found) > 0
                THEN w.content = generateHomePage(found[1], indexAbsPath)
                ELSE w.content.kind = "welcome"

\* a react run found a home component and wrote its wrapper
C11_Witness ==
  /\ pc = "done"
  /\ isCra
  /\ Len(Writes) = 1
  /\ Writes[1].content.kind = "home"
  /\ Writes[1].content.componentName = <<"H", "o", "m", "e">>

\* the entry path names a file the sweeps pass over
EntryProtected == \E b \in ManifestBasenames : Includes(indexAbsPath, b)

\* at most one write, and nothing after it
WriteIsLast == \A i \in 1..Len(ops) : ops[i].kind = "write" => i = Len(ops)

\* C18 as stated: the deletions all precede the single final write, and a run
\* interrupted between the sweeps and the write leaves no file at the entry
\* path.
C18_InterruptedLeavesNoEntry ==
  /\ WriteIsLast
  /\ (pc = "interrupted" /\ ~canRenderIndex) => indexAbsPath \notin DOMAIN fs

\* C18: the deletions all precede the single final write, and a run
\* interrupted between the sweeps and the write leaves no file at the entry
\* path unless the entry path contains the basename of a manifest module path
\* (such a file is never deleted by the sweeps).
C18_DeletesThenSingleWrite ==
  /\ WriteIsLast
  /\ (pc = "interrupted" /\ ~canRenderIndex) =>
       /\ indexAbsPath \in DOMAIN fs => EntryProtected
       /\ indexAbsPath \notin UnlinkedPaths \/ ~EntryProtected

\* an interrupted run that deleted files and left the protected entry file
C18_Witness ==
  /\ pc = "interrupted"
  /\ ~canRenderIndex
  /\ UnlinkedPaths # {}
  /\ indexAbsPath \in DOMAIN fs

-----------------------------------------------------------------------------
(* The home scan and generateWelcomePage called on their own, on disks and    *)
(* manifests overwriteIndex can meet                                           *)

\* the files a project can have in and around its srcDir
ScanFiles ==
  {SRC_APP_TSX, SRC_COMPONENTS_CACHE_HOME_JS, SRC_COMPONENTS_HOME_TSX,
   SRC_COMPONENTS_HOME_UPPER_TSX, SRC_COMPONENTS_HOMEPAGE_TSX,
   SRC_COMPONENTS_INDEX_MODULE_CSS, SRC_COMPONENTS_INDEX_CAP_TSX,
   SRC_COMPONENTS_SUB_HOME_JSX, SRC_INDEX_TSX}

\* the components of AllComponents and a second page under pagesDir,
\* "../pages/about.tsx"
WelcomeComponents ==
  AllComponents \o
  <<Component(<<".", ".", "/", "p", "a", "g", "e", "s", "/", "a", "b", "o", "u", "t", ".", "t", "s", "x">>,
              "page", "About")>>

WelcomeComponentLists ==
  {SelectSeq(WelcomeComponents, LAMBDA c : c \in S) :
     S \in {T \in SUBSET Range(WelcomeComponents) : Cardinality(T) <= MaxComponents + 1}}

\* the pagesDir of the manifest: absent, empty or "../pages"
WelcomePagesDirs == PagesDirSettings \cup {Str(<<>>)}

WelcomeConfigs ==
  {[code |-> [lang |-> "ts"],
    srcDir |-> SrcDir,
    pagesDir |-> pd,
    projects |-> <<[components |-> comps]>>] :
     pd \in WelcomePagesDirs, comps \in WelcomeComponentLists}

HelperInit ==
  /\ MergeIdle
  /\ IndexIdle
  /\ HelperIdle
  /\ RunIdle

\* lines 192-199: the home glob on a disk
CallHomeScan ==
  /\ probe.fn = "none"
  /\ \E S \in SUBSET ScanFiles :
       /\ probe' = [fn |-> "homeScan", files |-> S]
       /\ outcome' = [kind |-> "files",
                      files |-> globSync(HomeGlob(SrcDir), [f \in S |-> Original])]
  /\ UNCHANGED <<mergeVars, indexVars, runVars>>

\* lines 242-306: generateWelcomePage(config, noPages)
CallGenerateWelcomePage ==
  /\ probe.fn = "none"
  /\ \E cfg \in WelcomeConfigs, noPages \in BOOLEAN :
       /\ probe' = [fn |-> "generateWelcomePage", cfg |-> cfg, noPages |-> noPages]
       /\ outcome' = generateWelcomePage(cfg, noPages)
  /\ UNCHANGED <<mergeVars, indexVars, runVars>>

HelperNext ==
  \/ CallHomeScan
  \/ CallGenerateWelcomePage

SpecHelpers == HelperInit /\ [][HelperNext]_vars

-----------------------------------------------------------------------------
(* Claims about the home scan and the welcome page *)

UpperCase ==
  <<"A", "B", "C", "D", "E", "F", "G", "H", "I", "J", "K", "L", "M",
    "N", "O", "P", "Q", "R", "S", "T", "U", "V", "W", "X", "Y", "Z">>

LowerCase ==
  <<"a", "b", "c", "d", "e", "f", "g", "h", "i", "j", "k", "l", "m",
    "n", "o", "p", "q", "r", "s", "t", "u", "v", "w", "x", "y", "z">>

ToLower(str) ==
  [i \in 1..Len(str) |->
     IF \E k \in 1..26 : UpperCase[k] = str[i]
     THEN LowerCase[CHOOSE k \in 1..26 : UpperCase[k] = str[i]]
     ELSE str[i]]

\* the path is below the srcDir of the manifest, at any depth
UnderSrcDir(f) == StartsWith(f, join(ProjectPath, SrcDir) \o <<"/">>)

\* the path is below srcDir and no directory between them is hidden
InSrcTree(f) ==
  LET top == Split(join(ProjectPath, SrcDir))
      segs == Split(f)
  IN /\ Len(segs) > Len(top)
     /\ SubSeq(segs, 1, Len(top)) = top
     /\ \A i \in (Len(top) + 1)..(Len(segs) - 1) : segs[i][1] # "."

\* the basename is "index", "Home" or "home", a dot, and anything
HomeName(b) ==
  \E n \in 1..Len(b) :
    /\ b[n] = "."
    /\ SubSeq(b, 1, n - 1) \in
         {<<"i", "n", "d", "e", "x">>, <<"H", "o", "m", "e">>, <<"h", "o", "m", "e">>}

\* C12 as stated: the home scan matches exactly the files under srcDir whose
\* basename without extension is "index" or "home" in any letter case.
C12_ScanCaseInsensitive ==
  probe.fn = "homeScan" =>
    \A f \in probe.files :
      f \in Range(outcome.files) <=>
        /\ UnderSrcDir(f)
        /\ ToLower(stripExtension(basename(f))) \in
             {<<"i", "n", "d", "e", "x">>, <<"h", "o", "m", "e">>}

\* C12: the home scan matches exactly the files in srcDir, or in a directory
\* below it reached through directories whose names do not begin with a dot,
\* whose basename begins with "index.", "Home." or "home." in that very
\* spelling.
C12_ScanThreeSpellings ==
  probe.fn = "homeScan" =>
    /\ \A f \in probe.files :
         f \in Range(outcome.files) <=> InSrcTree(f) /\ HomeName(basename(f))
    /\ Range(outcome.files) \subseteq probe.files

\* a scan of a disk holding every spelling: Home.tsx, index.module.css and
\* sub/home.jsx are found, Index.tsx and HOME.tsx are not
C12_Witness ==
  /\ probe.fn = "homeScan"
  /\ probe.files = ScanFiles
  /\ outcome.files = <<SRC_COMPONENTS_HOME_TSX, SRC_COMPONENTS_INDEX_MODULE_CSS,
                       SRC_COMPONENTS_SUB_HOME_JSX>>

\* the components of a manifest that are pages
PagesOf(cfg) ==
  SelectSeq(JoinComponents(cfg.projects), LAMBDA c : c.componentType = "page")

\* C17: the welcome page always has the fixed welcome markup; it has no
\* page-link list when the manifest has no page component; a page-link list
\* that is present has exactly one link for every page component of the
\* manifest, in manifest order, and none for any other component.
C17_WelcomeMarkupAndPageLinks ==
  probe.fn = "generateWelcomePage" =>
    LET pages == PagesOf(probe.cfg)
        others == {c \in Range(JoinComponents(probe.cfg.projects)) :
                     c.componentType # "page"}
        links == outcome.pageSection
    IN /\ outcome.kind = "welcome"
       /\ outcome.markup = WelcomeMarkup
       /\ Len(pages) = 0 => links = <<>>
       /\ links # <<>> =>
            /\ Len(links) = Len(pages)
            /\ \A i \in 1..Len(pages) : links[i].name = pages[i].name
            /\ \A c \in others : \A i \in 1..Len(links) : links[i].name # c.name

\* a manifest with two pages and a plain component: two links, "/index" for
\* ../pages/index.tsx and "/about" for ../pages/about.tsx
C17_Witness ==
  /\ probe.fn = "generateWelcomePage"
  /\ Len(JoinComponents(probe.cfg.projects)) = 3
  /\ Len(outcome.pageSection) = 2
  /\ outcome.pageSection[1].href = <<"/", "i", "n", "d", "e", "x">>
  /\ outcome.pageSection[2].href = <<"/", "a", "b", "o", "u", "t">>

-----------------------------------------------------------------------------
(* run of create-plasmic-app, from the platform question (line 153) to the    *)
(* call of cpa.create (line 231); the project path and the language have been *)
(* settled (lines 96-151)                                                      *)

\* assert(cond, msg) of utils/lang-utils: fails when cond is false
assert(cond) == [ok |-> cond]

\* ensureString(x) of utils/lang-utils: fails when x is not a string
ensureString(x) == [ok |-> x.type = "string", value |-> x]

\* "https://studio.plasmic.app/projects/"
StudioPrefix ==
  <<"h", "t", "t", "p", "s", ":", "/", "/", "s", "t", "u", "d", "i", "o", ".", "p", "l", "a", "s", "m", "i", "c", ".", "a", "p", "p", "/", "p", "r", "o", "j", "e", "c", "t", "s", "/">>

\* String.prototype.replace(pattern, replacement) with a string pattern: the
\* first occurrence only
replace(str, pattern, replacement) ==
  LET at == {i \in 1..(Len(str) - Len(pattern) + 1) :
               SubSeq(str, i, i + Len(pattern) - 1) = pattern}
      i == CHOOSE k \in at : \A j \in at : k <= j
  IN IF at = {} THEN str
     ELSE SubSeq(str, 1, i - 1) \o replacement \o SubSeq(str, i + Len(pattern), Len(str))

RECURSIVE trimStart(_)
trimStart(str) ==
  IF str # <<>> /\ Head(str) = " " THEN trimStart(Tail(str)) ELSE str

RECURSIVE trimEnd(_)
trimEnd(str) ==
  IF str # <<>> /\ str[Len(str)] = " " THEN trimEnd(SubSeq(str, 1, Len(str) - 1)) ELSE str

\* String.prototype.trim
trim(str) == trimEnd(trimStart(str))

NEXTJS == Str(<<"n", "e", "x", "t", "j", "s">>)
GATSBY == Str(<<"g", "a", "t", "s", "b", "y">>)
REACT == Str(<<"r", "e", "a", "c", "t">>)
CODEGEN == Str(<<"c", "o", "d", "e", "g", "e", "n">>)
LOADER == Str(<<"l", "o", "a", "d", "e", "r">>)

\* the choices of the platform and scheme questions
PlatformChoices == {NEXTJS, GATSBY, REACT}
SchemeChoices == {LOADER, CODEGEN}

\* what can be given, on the command line or at the prompt, as a project ID:
\* "", " ", "abc", " abc ", the studio URL prefix alone and the URL of abc
ProjectIdTexts ==
  {Str(<<>>),
   Str(<<" ">>),
   Str(<<"a", "b", "c">>),
   Str(<<" ", "a", "b", "c", " ">>),
   Str(StudioPrefix),
   Str(StudioPrefix \o <<"a", "b", "c">>)}

\* the command lines yargs accepts (an option that is not given is "")
Argvs ==
  [platform : PlatformChoices \cup {Str(<<>>)},
   scheme : SchemeChoices \cup {Str(<<>>)},
   projectId : ProjectIdTexts]

\* line 80: the option was not given, so maybePrompt asks the user
Prompts(name) ==
  \/ argv[name] = Null
  \/ argv[name] = Undefined
  \/ argv[name] = Str(<<>>)

\* maybePrompt, given the answer the user types if asked
maybePrompt(name, answer) ==
  IF Prompts(name) THEN answer ELSE ensure(argv[name]).value

\* the answers inquirer can return for a question: one answer of the set when
\* maybePrompt asks, none when it does not
AnswersTo(name, answers) == IF Prompts(name) THEN answers ELSE {Undefined}

\* the text is a project ID once the prefix is removed and it is trimmed
ValidProjectId(text) == trim(replace(text.chars, StudioPrefix, <<>>)) # <<>>

\* what the user can type at the project ID prompt: anything at first, a
\* valid project ID after MaxInvalidAnswers prompts
ProjectIdAnswers ==
  IF prompts < MaxInvalidAnswers THEN ProjectIdTexts
  ELSE {t \in ProjectIdTexts : ValidProjectId(t)}

RunInit ==
  /\ MergeIdle
  /\ IndexIdle
  /\ HelperIdle
  /\ argv \in Argvs
  /\ settled = [platform |-> Undefined, scheme |-> Undefined]
  /\ projectId = Undefined
  /\ rawProjectId = Undefined
  /\ prompts = 0
  /\ runPc = "platform"
  /\ created = [called |-> FALSE]

\* lines 153-175: the platform, from the command line or the prompt
ChoosePlatform ==
  /\ runPc = "platform"
  /\ \E answer \in AnswersTo("platform", PlatformChoices) :
       LET chosenPlatform == ensureString(maybePrompt("platform", answer)) IN
         IF chosenPlatform.ok
         THEN /\ settled' = [settled EXCEPT !.platform = chosenPlatform.value]
              /\ runPc' = "scheme"
         ELSE /\ runPc' = "failed"
              /\ UNCHANGED settled
  /\ UNCHANGED <<argv, projectId, rawProjectId, prompts, created>>
  /\ UNCHANGED <<mergeVars, indexVars, helperVars>>

\* lines 179-199: the scheme, asked only for nextjs and gatsby
ChooseScheme ==
  /\ runPc = "scheme"
  /\ IF settled.platform = NEXTJS \/ settled.platform = GATSBY
     THEN \E answer \in AnswersTo("scheme", SchemeChoices) :
            settled' = [settled EXCEPT !.scheme = maybePrompt("scheme", answer)]
     ELSE settled' = [settled EXCEPT !.scheme = CODEGEN]
  /\ runPc' = "loop"
  /\ UNCHANGED <<argv, projectId, rawProjectId, prompts, created>>
  /\ UNCHANGED <<mergeVars, indexVars, helperVars>>

\* lines 209-213: the loop is entered and maybePrompt is awaited
AskProjectId ==
  /\ runPc = "loop"
  /\ ~Truthy(projectId)
  /\ \E answer \in AnswersTo("projectId", ProjectIdAnswers) :
       rawProjectId' = maybePrompt("projectId", answer)
  /\ prompts' = IF Prompts("projectId") THEN prompts + 1 ELSE prompts
  /\ runPc' = "asked"
  /\ UNCHANGED <<argv, settled, projectId, created>>
  /\ UNCHANGED <<mergeVars, indexVars, helperVars>>

\* lines 214-220: the answer is cleaned, and the loop test is next
CleanProjectId ==
  /\ runPc = "asked"
  /\ projectId' = Str(trim(replace(rawProjectId.chars, StudioPrefix, <<>>)))
  /\ runPc' = "loop"
  /\ UNCHANGED <<argv, settled, rawProjectId, prompts, created>>
  /\ UNCHANGED <<mergeVars, indexVars, helperVars>>

\* lines 209, 222-239: the loop is left and cpa.create is called
CreateApp ==
  /\ runPc = "loop"
  /\ Truthy(projectId)
  /\ IF assert(settled.platform \in PlatformChoices).ok
     THEN /\ created' = [called |-> TRUE,
                         projectId |-> projectId,
                         platform |-> settled.platform,
                         scheme |-> settled.scheme]
          /\ runPc' = "created"
     ELSE /\ runPc' = "failed"
          /\ UNCHANGED created
  /\ UNCHANGED <<argv, settled, projectId, rawProjectId, prompts>>
  /\ UNCHANGED <<mergeVars, indexVars, helperVars>>

RunNext ==
  \/ ChoosePlatform
  \/ ChooseScheme
  \/ AskProjectId
  \/ CleanProjectId
  \/ CreateApp

\* node runs the next statement of run() whenever there is one, and the user
\* answers every prompt
SpecRun == RunInit /\ [][RunNext]_vars /\ WF_vars(RunNext)

-----------------------------------------------------------------------------
(* Claims about run *)

\* C19: for every command-line value of projectId, and a user who gives a
\* valid project ID after at most MaxInvalidAnswers other answers, the project
\* ID loop of run terminates: cpa.create is eventually called, with a
\* non-empty projectId.
C19_LoopTerminates ==
  <>(/\ runPc = "created"
     /\ created.called
     /\ created.projectId = projectId
     /\ projectId.chars # <<>>)

====
